---- MODULE Spec2Model ----
(***************************************************************************)
(* A model of app.py, the OOTD outfit recommender: the season of a         *)
(* temperature, the item scorer, the outfit composer (pick_best_items),    *)
(* the text rendering of an outfit, the context similarity, the trending   *)
(* score and the reference ranker (get_similar_references) of the feed,    *)
(* and the handlers of the Streamlit script: onboarding, recommend, the    *)
(* result view, the wardrobe and the resets of the settings tab.           *)
(*                                                                         *)
(* Numbers.  warmth, formality and formality_need are multiples of 0.05    *)
(* (the sliders of the forms step by 0.05, the preset catalog uses         *)
(* multiples of 0.05); they are kept in twentieths: 0..20.  An item score  *)
(* is then a whole number of 1/200: 0.6 is 120, 0.2 is 40, 0.8*(w-0.3) is  *)
(* 8*(w20-6), 0.3*(0.6-|w-0.6|) is 3*(12-|w20-12|), 0.4 is 80, 0.1 is 20,  *)
(* 0.8*(1-|f-n|) is 8*(20-|f20-n20|) and (hash % 17)/200 is hash % 17.     *)
(* A similarity is a rational, kept as the pair <<numerator, denominator>>.*)
(* Temperatures and precipitation probabilities are whole numbers.         *)
(* Timestamps are in units of 1800 seconds; trends and finals are          *)
(* rationals.                                                              *)
(*                                                                         *)
(* Strings.  The Korean labels of the source are written in English:       *)
(* top, bottom, dress, outer, shoes, socks, accessory, bag for the         *)
(* categories; work, interview, wedding, exercise, travel, date, school,   *)
(* casual_outing, other for the occasions; casual, formal, office,         *)
(* exercise, waterproof, rain for the tags the scorer reads; black, navy,  *)
(* gray, white for colours.                                                *)
(*                                                                         *)
(* Optional values.  Python's None is the empty sequence and a present     *)
(* value v is <<v>>.                                                       *)
(***************************************************************************)
EXTENDS Integers, Sequences, FiniteSets, TLC

VARIABLES
    items,      \* db["items"]: the wardrobe, a list of item records
    rawHash,    \* hash(id) of this interpreter process, per item id
    ctx,        \* the context of the last pick_best_items call, or None
    outfit,     \* the outfit that call returned, or None
    text,       \* outfit_to_text of that outfit, or None
    seen,       \* the call of the previous process: <<[ctx, outfit]>>, or None
    ctxA,       \* first argument of the last ctx_similarity call
    ctxB,       \* second argument of the last ctx_similarity call
    sim,        \* what that call returned, or None
    moodsA,     \* first argument of the last jaccard call
    moodsB,     \* second argument of the last jaccard call
    jac,        \* what that call returned, or None
    tempArg,    \* argument of the last season_from_temp call (None: no temperature)
    seasonRes,  \* what that call returned, or None
    itemScore,  \* what the last score_item_for_context call returned, or None
    posts,      \* db["posts"]: the feed, a list of post records
    likesMap,   \* db["likes"]: the like count of a post id, None for a missing key
    clock,      \* now_ts(), in units of 1800 seconds
    reqCtx,     \* the context get_similar_references is called with
    topK,       \* its top_k
    refs,       \* what that call returned, or None
    trPost,     \* the post of the last trending_score call
    trLikes,    \* its like count
    trend,      \* what that call returned, or None
    trendOld,   \* what the call before it returned for the same post, or None
    onboarded,  \* db["meta"]["onboarding_completed"]
    profile,    \* db["meta"]["onboarding_profile"], or None
    savedOutfits, \* db["outfits"]
    mainView,   \* st.session_state["main_view"]
    lastOutfit  \* st.session_state["last_outfit"], or None

vars == <<items, rawHash, ctx, outfit, text, seen, ctxA, ctxB, sim, moodsA, moodsB, jac,
          tempArg, seasonRes, itemScore, posts, likesMap, clock, reqCtx, topK, refs,
          trPost, trLikes, trend, trendOld,
          onboarded, profile, savedOutfits, mainView, lastOutfit>>

composeVars == <<items, rawHash, ctx, outfit, text, seen>>
simVars == <<ctxA, ctxB, sim, moodsA, moodsB, jac>>
scoreVars == <<tempArg, seasonRes, itemScore>>
feedVars == <<posts, likesMap, clock, reqCtx, topK, refs>>
trendVars == <<trPost, trLikes, trend, trendOld>>
appVars == <<onboarded, profile, savedOutfits, mainView, lastOutfit>>

None == <<>>
Some(v) == <<v>>
Val(o) == o[1]

Abs(x) == IF x < 0 THEN -x ELSE x
Max(x, y) == IF x >= y THEN x ELSE y

Range(s) == {s[i] : i \in DOMAIN s}

(***************************************************************************)
(* Bounds of the model.                                                    *)
(***************************************************************************)
MaxItems == 3
MaxMoodLen == 2

(***************************************************************************)
(* season_from_temp                                                        *)
(***************************************************************************)
\* the comparisons are strict: a boundary value falls in the upper season
season_from_temp_strict(temp_c) ==
    IF temp_c = None THEN "mild"
    ELSE IF Val(temp_c) < 5 THEN "winter"
    ELSE IF Val(temp_c) < 16 THEN "spring_fall"
    ELSE IF Val(temp_c) < 26 THEN "mild"
    ELSE "summer"

season_from_temp(temp_c) ==
    IF temp_c = None THEN "mild"
    ELSE IF Val(temp_c) <= 5 THEN "winter"
    ELSE IF Val(temp_c) <= 16 THEN "spring_fall"
    ELSE IF Val(temp_c) <= 26 THEN "mild"
    ELSE "summer"

(***************************************************************************)
(* score_item_for_context, in 1/200.                                       *)
(***************************************************************************)
HashMod == 17

TieBreak(item) == rawHash[item.id] % HashMod

\* a wedding is not among the formal occasions
OccasionFit_no_wedding(item, c) ==
    LET tpo == IF c.tpo = None THEN "other" ELSE Val(c.tpo)
        cat == item.category
        tags == item.tags
        formalPart ==
            IF tpo \in {"work", "interview"}
            THEN (IF cat \in {"top", "bottom", "outer", "shoes", "dress"} THEN 120 ELSE 0)
                 + (IF "casual" \in tags THEN -40 ELSE 0)
                 + (IF "formal" \in tags \/ "office" \in tags THEN 40 ELSE 0)
            ELSE 0
        exercisePart ==
            IF tpo = "exercise"
            THEN (IF "exercise" \in tags \/ cat \in {"shoes", "top", "bottom"} THEN 120 ELSE 0)
                 + (IF "formal" \in tags THEN -40 ELSE 0)
            ELSE 0
        flatPart ==
            IF tpo \in {"travel", "date", "school", "casual_outing"} THEN 40 ELSE 0
    IN formalPart + exercisePart + flatPart

OccasionFit(item, c) ==
    LET tpo == IF c.tpo = None THEN "other" ELSE Val(c.tpo)
        cat == item.category
        tags == item.tags
        formalPart ==
            IF tpo \in {"work", "interview", "wedding"}
            THEN (IF cat \in {"top", "bottom", "outer", "shoes", "dress"} THEN 120 ELSE 0)
                 + (IF "casual" \in tags THEN -40 ELSE 0)
                 + (IF "formal" \in tags \/ "office" \in tags THEN 40 ELSE 0)
            ELSE 0
        exercisePart ==
            IF tpo = "exercise"
            THEN (IF "exercise" \in tags \/ cat \in {"shoes", "top", "bottom"} THEN 120 ELSE 0)
                 + (IF "formal" \in tags THEN -40 ELSE 0)
            ELSE 0
        flatPart ==
            IF tpo \in {"travel", "date", "school", "casual_outing"} THEN 40 ELSE 0
    IN formalPart + exercisePart + flatPart

SeasonFit(item, c) ==
    LET season == IF c.season = None THEN "mild" ELSE Val(c.season)
        warmth == item.warmth
    IN IF season = "winter" THEN 8 * (warmth - 6)
       ELSE IF season = "summer" THEN 8 * (14 - warmth)
       ELSE 3 * (12 - Abs(warmth - 12))

RainFit(item, c) ==
    IF c.precip_prob # None /\ Val(c.precip_prob) >= 50
    THEN (IF "waterproof" \in item.tags \/ "rain" \in item.tags THEN 80 ELSE 0)
         + (IF item.color \in {"black", "navy", "gray"} THEN 20 ELSE 0)
    ELSE 0

FormalityFit(item, c) ==
    LET formality_need == IF c.formality_need = None THEN 10 ELSE Val(c.formality_need)
    IN 8 * (20 - Abs(item.formality - formality_need))

score_item_for_context(item, c) ==
    OccasionFit(item, c) + SeasonFit(item, c) + RainFit(item, c)
        + FormalityFit(item, c) + TieBreak(item)

(***************************************************************************)
(* pick_best_items                                                         *)
(***************************************************************************)
Slots == <<"outer", "top", "bottom", "dress", "shoes", "bag", "accessory">>

by_cat(its, cat) == SelectSeq(its, LAMBDA it : it.category = cat)

\* sorted(cands, key=score, reverse=True): a stable sort, equal keys keep their order.
RECURSIVE InsertDesc(_, _, _)
InsertDesc(it, s, c) ==
    IF s = <<>> THEN <<it>>
    ELSE IF score_item_for_context(Head(s), c) >= score_item_for_context(it, c)
         THEN <<Head(s)>> \o InsertDesc(it, Tail(s), c)
         ELSE <<it>> \o s

RECURSIVE SortedDesc(_, _)
SortedDesc(s, c) ==
    IF s = <<>> THEN <<>>
    ELSE LET rest == SortedDesc(SubSeq(s, 1, Len(s) - 1), c)
         IN InsertDesc(s[Len(s)], rest, c)

bestLowest(its, cat, c) ==
    LET cands == by_cat(its, cat)
    IN IF cands = <<>> THEN None
       ELSE LET scored == SortedDesc(cands, c) IN Some(scored[Len(scored)])

best(its, cat, c) ==
    LET cands == by_cat(its, cat)
    IN IF cands = <<>> THEN None
       ELSE LET scored == SortedDesc(cands, c) IN Some(scored[1])

\* dress_score > tb_score / 1.8, as 9 * dress_score > 5 * tb_score
DressWinsReversed(dress_score, tb_score) == 9 * dress_score < 5 * tb_score

DressWins(dress_score, tb_score) == 9 * dress_score > 5 * tb_score

pick_best_items(its, c) ==
    LET first == [s \in Range(Slots) |-> best(its, s, c)]
        top == first["top"]
        bottom == first["bottom"]
        dress == first["dress"]
        dress_score == score_item_for_context(Val(dress), c)
        tb_score == (IF top # None THEN score_item_for_context(Val(top), c) ELSE 0)
                    + (IF bottom # None THEN score_item_for_context(Val(bottom), c) ELSE 0)
    IN IF dress # None /\ DressWins(dress_score, tb_score)
       THEN [first EXCEPT !["top"] = None, !["bottom"] = None]
       ELSE first

(***************************************************************************)
(* outfit_to_text.  A text is the list of its lines; "\n".join of no line  *)
(* is the empty string, the empty list here.  A line is                    *)
(* "- {cat}: {name} ({color}){mark}", kept as its four parts.              *)
(***************************************************************************)
Placeholder == << <<"register items first">> >>

TextLine(cat, it) == <<cat, it.name, it.color, IF it.is_preset THEN " (preset)" ELSE "">>

RECURSIVE TextParts(_, _)
TextParts(o, cats) ==
    IF cats = <<>> THEN <<>>
    ELSE (IF o[Head(cats)] # None THEN <<TextLine(Head(cats), Val(o[Head(cats)]))>> ELSE <<>>)
         \o TextParts(o, Tail(cats))

outfit_to_text_join_only(o) == TextParts(o, Slots)

outfit_to_text(o) ==
    LET parts == TextParts(o, Slots)
    IN IF parts # <<>> THEN parts ELSE Placeholder

(***************************************************************************)
(* Rationals: <<numerator, denominator>>, the denominator positive.        *)
(***************************************************************************)
RECURSIVE GCD(_, _)
GCD(m, n) == IF n = 0 THEN m ELSE GCD(n, m % n)

\* in lowest terms
R(n, d) == LET g == GCD(Abs(n), d) IN <<n \div g, d \div g>>
RAdd(x, y) == R(x[1] * y[2] + y[1] * x[2], x[2] * y[2])
RMul(x, y) == R(x[1] * y[1], x[2] * y[2])
RDiv(x, y) == R(x[1] * y[2], x[2] * y[1])
RLe(x, y) == x[1] * y[2] <= y[1] * x[2]
REq(x, y) == x[1] * y[2] = y[1] * x[2]
RMin(x, y) == IF RLe(x, y) THEN x ELSE y
RMax(x, y) == IF RLe(y, x) THEN x ELSE y

(***************************************************************************)
(* bucket_temp, bucket_precip, jaccard, ctx_similarity                     *)
(***************************************************************************)
\* int(temp / 5.0): rounds towards zero
bucket_temp_trunc(temp) == IF temp < 0 THEN -((-temp) \div 5) ELSE temp \div 5

\* int(math.floor(temp / 5.0))
bucket_temp(temp) == temp \div 5

bucket_precip(p) ==
    IF p < 20 THEN 0
    ELSE IF p < 50 THEN 1
    ELSE IF p < 80 THEN 2
    ELSE 3

\* a or []
OrEmpty(a) == IF a = None THEN <<>> ELSE Val(a)

\* the union counted from the lists, duplicates and all
jaccard_no_dedup(a, b) ==
    LET A == Range(OrEmpty(a))
        B == Range(OrEmpty(b))
    IN IF A = {} /\ B = {} THEN R(1, 1)
       ELSE IF A = {} \/ B = {} THEN R(0, 1)
       ELSE R(Cardinality(A \cap B),
              Max(1, Len(OrEmpty(a)) + Len(OrEmpty(b)) - Cardinality(A \cap B)))

\* two empty mood sets do not match
jaccard_empty_zero(a, b) ==
    LET A == Range(OrEmpty(a))
        B == Range(OrEmpty(b))
    IN IF A = {} \/ B = {} THEN R(0, 1)
       ELSE R(Cardinality(A \cap B), Max(1, Cardinality(A \cup B)))

\* any shared mood counts as a full match
jaccard_any_overlap(a, b) ==
    LET A == Range(OrEmpty(a))
        B == Range(OrEmpty(b))
    IN IF A = {} /\ B = {} THEN R(1, 1)
       ELSE IF A \cap B # {} THEN R(1, 1) ELSE R(0, 1)

jaccard(a, b) ==
    LET A == Range(OrEmpty(a))
        B == Range(OrEmpty(b))
    IN IF A = {} /\ B = {} THEN R(1, 1)
       ELSE IF A = {} \/ B = {} THEN R(0, 1)
       ELSE R(Cardinality(A \cap B), Max(1, Cardinality(A \cup B)))

\* the weights, in hundredths
W_TEMP == 30
W_PRECIP == 20
W_TPO == 30
W_MOOD == 20

\* a.get("tpo"): a present, non-empty string
Truthy(o) == o # None /\ Val(o) # ""

TempComparable(a, b) == a.temp_c # None /\ b.temp_c # None
PrecipComparable(a, b) == a.precip_prob # None /\ b.precip_prob # None
TpoComparable(a, b) == Truthy(a.tpo) /\ Truthy(b.tpo)

TempScore(a, b) ==
    LET ta == bucket_temp(Val(a.temp_c))
        tb == bucket_temp(Val(b.temp_c))
    IN IF ta = tb THEN R(1, 1) ELSE IF Abs(ta - tb) = 1 THEN R(3, 10) ELSE R(0, 1)

PrecipScore(a, b) ==
    LET pa == bucket_precip(Val(a.precip_prob))
        pb == bucket_precip(Val(b.precip_prob))
    IN IF pa = pb THEN R(1, 1) ELSE IF Abs(pa - pb) = 1 THEN R(4, 10) ELSE R(0, 1)

TpoScore(a, b) == IF Val(a.tpo) = Val(b.tpo) THEN R(1, 1) ELSE R(0, 1)

\* score, as the four steps add to it
SimScore(a, b) ==
    LET s1 == IF TempComparable(a, b)
              THEN RMul(TempScore(a, b), R(W_TEMP, 100)) ELSE R(0, 1)
        s2 == IF PrecipComparable(a, b)
              THEN RAdd(s1, RMul(PrecipScore(a, b), R(W_PRECIP, 100))) ELSE s1
        s3 == IF TpoComparable(a, b)
              THEN RAdd(s2, RMul(TpoScore(a, b), R(W_TPO, 100))) ELSE s2
    IN RAdd(s3, RMul(jaccard(a.mood, b.mood), R(W_MOOD, 100)))

\* w_sum, in hundredths
SimWeight(a, b) ==
    (IF TempComparable(a, b) THEN W_TEMP ELSE 0)
    + (IF PrecipComparable(a, b) THEN W_PRECIP ELSE 0)
    + (IF TpoComparable(a, b) THEN W_TPO ELSE 0)
    + W_MOOD

\* the temperature weight is left out of w_sum and the result is not clamped
ctx_similarity_unclamped(a, b) ==
    LET w_sum == SimWeight(a, b) - (IF TempComparable(a, b) THEN W_TEMP ELSE 0)
    IN IF w_sum <= 0 THEN R(0, 1) ELSE RDiv(SimScore(a, b), R(w_sum, 100))

ctx_similarity(a, b) ==
    LET score == SimScore(a, b)
        w_sum == SimWeight(a, b)
    IN IF w_sum <= 0 THEN R(0, 1)
       ELSE RMax(R(0, 1), RMin(R(1, 1), RDiv(score, R(w_sum, 100))))

(***************************************************************************)
(* Inputs of the composer: wardrobes and request contexts.                 *)
(***************************************************************************)
\* an item as the add_item form or create_preset_wardrobe stores it (the fields the
\* composer and the renderer read)
Item(name, category, color, tags, warmth, formality, is_preset) ==
    [id |-> 0, name |-> name, category |-> category, color |-> color, tags |-> tags,
     warmth |-> warmth, formality |-> formality, is_preset |-> is_preset]

\* the preset T-shirt of preset_catalog, and items as the add_item form stores them
Tee == Item("black basic tee", "top", "black",
           {"minimal", "achromatic", "basic", "plain", "preset"}, 7, 9, TRUE)
Hoodie == Item("hoodie", "top", "gray", {"casual"}, 13, 7, FALSE)
Shorts == Item("shorts", "bottom", "white", {"casual"}, 5, 4, FALSE)
WrapDress == Item("wrap dress", "dress", "white", {"formal"}, 8, 16, FALSE)
RainJacket == Item("rain jacket", "outer", "navy", {"waterproof"}, 14, 10, FALSE)
Runners == Item("runners", "shoes", "white", {"exercise"}, 7, 5, FALSE)
Tote == Item("tote", "bag", "black", {}, 4, 12, FALSE)
Scarf == Item("scarf", "accessory", "gray", {}, 16, 12, FALSE)
WoolSocks == Item("wool socks", "socks", "gray", {}, 15, 8, FALSE)

\* one item of each of the 8 categories; a wardrobe may hold an item several times,
\* under different ids
ItemPool == {Tee, Shorts, WrapDress, RainJacket, Runners, Tote, Scarf, WoolSocks}

\* new_id gives every item its own id: here its position at registration
Wardrobes ==
    UNION { { [i \in 1..n |-> [t[i] EXCEPT !.id = i]] : t \in [1..n -> ItemPool] }
            : n \in 0..MaxItems }

\* hash() of a str is salted per interpreter process: any integer, negative ones too
RawHashes == {-1, 20}

\* the context the main tab builds from its form
BuildCtx(temp_c, precip_prob, tpo, mood, formality_need) ==
    [temp_c |-> Some(temp_c), precip_prob |-> Some(precip_prob), tpo |-> Some(tpo),
     mood |-> Some(mood), formality_need |-> Some(formality_need),
     season |-> Some(season_from_temp(Some(temp_c)))]

\* <<temperature, precipitation probability>>: cold and rainy, hot and dry
Weathers == {<<3, 60>>, <<30, 20>>}

ComposeCtxs ==
    { BuildCtx(w[1], w[2], o, <<"minimal">>, 12) : w \in Weathers, o \in {"work", "exercise"} }

EmptyCtx ==
    [temp_c |-> None, precip_prob |-> None, tpo |-> None, mood |-> None,
     formality_need |-> None, season |-> None]

(***************************************************************************)
(* The composer applied to a wardrobe.                                     *)
(***************************************************************************)
SimIdle ==
    /\ ctxA = EmptyCtx /\ ctxB = EmptyCtx /\ sim = None
    /\ moodsA = None /\ moodsB = None /\ jac = None

ComposeIdle ==
    /\ items = <<>> /\ rawHash = <<>> /\ ctx = None
    /\ outfit = None /\ text = None /\ seen = None

ScoreIdle == tempArg = None /\ seasonRes = None /\ itemScore = None

FeedIdle ==
    /\ posts = <<>> /\ likesMap = <<>> /\ clock = 0
    /\ reqCtx = EmptyCtx /\ topK = 0 /\ refs = None

TrendIdle == trPost = [created_at |-> None] /\ trLikes = 0 /\ trend = None /\ trendOld = None

\* a fresh db and a fresh session, no button pressed
AppIdle ==
    /\ onboarded = FALSE /\ profile = None /\ savedOutfits = <<>>
    /\ mainView = "home" /\ lastOutfit = None

InitCompose ==
    /\ items \in Wardrobes
    /\ rawHash \in [1..Len(items) -> RawHashes]
    /\ ctx = None
    /\ outfit = None
    /\ text = None
    /\ seen = None
    /\ SimIdle
    /\ ScoreIdle /\ FeedIdle /\ TrendIdle
    /\ AppIdle

\* outfit = pick_best_items(db, ctx); outfit_text = outfit_to_text(outfit).
\* A behaviour is one wardrobe and one call.
Compose(c) ==
    /\ outfit = None
    /\ ctx' = Some(c)
    /\ outfit' = Some(pick_best_items(items, c))
    /\ text' = Some(outfit_to_text(Val(outfit')))
    /\ UNCHANGED <<items, rawHash, seen>>
    /\ UNCHANGED <<simVars, scoreVars, feedVars, trendVars>>
    /\ UNCHANGED appVars

NextCompose == \E c \in ComposeCtxs : Compose(c)

SpecCompose == InitCompose /\ [][NextCompose]_vars

(***************************************************************************)
(* What the claims about the composer speak of.                            *)
(***************************************************************************)
CatItems(cat) == {items[i] : i \in {j \in 1..Len(items) : items[j].category = cat}}

\* the highest score of a category, a category without items counting 0
MaxScore(cat, c) ==
    LET scores == {score_item_for_context(it, c) : it \in CatItems(cat)}
    IN IF scores = {} THEN 0
       ELSE CHOOSE m \in scores : \A k \in scores : m >= k

IsBestOf(it, cat, c) ==
    LET among == CatItems(cat)
        own == score_item_for_context(it, c)
    IN /\ it \in among
       /\ \A y \in among : own >= score_item_for_context(y, c)

AllEmpty(o) == \A s \in Range(Slots) : o[s] = None

\* the dress beats the separates: score(dress) > (score(top) + score(bottom)) / 1.8
DressBeatsSeparates(c) ==
    /\ CatItems("dress") # {}
    /\ 9 * MaxScore("dress", c) > 5 * (MaxScore("top", c) + MaxScore("bottom", c))

(* C1: the outfit pick_best_items returns never has the top slot and the   *)
(* dress slot both populated, nor the bottom slot and the dress slot.      *)
C1_SlotExclusivity ==
    outfit # None =>
        LET o == Val(outfit)
        IN /\ ~(o["top"] # None /\ o["dress"] # None)
           /\ ~(o["bottom"] # None /\ o["dress"] # None)

(* C2: when a dress exists and its score exceeds (top + bottom) / 1.8, a   *)
(* missing top or bottom counting 0, the outfit holds the best dress and   *)
(* its top and bottom slots are empty.                                     *)
C2_DressWinsClearsSeparates ==
    (outfit # None /\ DressBeatsSeparates(Val(ctx))) =>
        LET o == Val(outfit)
        IN /\ o["dress"] # None
           /\ IsBestOf(Val(o["dress"]), "dress", Val(ctx))
           /\ o["top"] = None
           /\ o["bottom"] = None

\* a dress won against a top and a bottom that the wardrobe holds
C2_Witness ==
    /\ outfit # None
    /\ DressBeatsSeparates(Val(ctx))
    /\ CatItems("top") # {}
    /\ CatItems("bottom") # {}
    /\ Val(outfit)["dress"] # None
    /\ Val(outfit)["top"] = None

(* C3: every populated slot holds an item of the slot's category whose     *)
(* score is maximal in that category; the outer, shoes, bag and accessory  *)
(* slots are populated whenever their category has an item, whichever way  *)
(* the dress decision went.                                                *)
C3_SlotsHoldCategoryBest ==
    outfit # None =>
        LET o == Val(outfit)
        IN /\ \A s \in Range(Slots) :
                o[s] # None =>
                    /\ Val(o[s]).category = s
                    /\ IsBestOf(Val(o[s]), s, Val(ctx))
           /\ \A s \in {"outer", "shoes", "bag", "accessory"} :
                CatItems(s) # {} => o[s] # None

\* the dress won against a top, and a slot outside the decision is populated
C3_Witness ==
    /\ outfit # None
    /\ DressBeatsSeparates(Val(ctx))
    /\ CatItems("top") # {}
    /\ Val(outfit)["top"] = None
    /\ Val(outfit)["dress"] # None
    /\ \E s \in {"outer", "shoes", "bag", "accessory"} : Val(outfit)[s] # None

(* C4: a category without items gives an empty slot, an empty wardrobe an  *)
(* outfit of 7 empty slots, and the text of an outfit without a populated  *)
(* slot is the placeholder, never the empty string.                        *)
C4_MissingCandidates ==
    outfit # None =>
        LET o == Val(outfit)
        IN /\ DOMAIN o = Range(Slots)
           /\ \A s \in Range(Slots) : CatItems(s) = {} => o[s] = None
           /\ items = <<>> => AllEmpty(o)
           /\ AllEmpty(o) => (text = Some(Placeholder) /\ Val(text) # <<>>)

\* the composer ran on the empty wardrobe
C4_Witness ==
    /\ outfit # None
    /\ items = <<>>
    /\ AllEmpty(Val(outfit))
    /\ text = Some(Placeholder)

(***************************************************************************)
(* The composer across server processes.  The wardrobe is kept in db.json; *)
(* a new process loads it, starts with an empty session, and salts hash()  *)
(* of a str anew.                                                          *)
(***************************************************************************)
RestartPool == {Tee, Hoodie, WrapDress}

RestartWardrobes ==
    UNION { { [i \in 1..n |-> [t[i] EXCEPT !.id = i]] : t \in [1..n -> RestartPool] }
            : n \in 0..MaxItems }

InitRestart ==
    /\ items \in RestartWardrobes
    /\ rawHash \in [1..Len(items) -> RawHashes]
    /\ ctx = None
    /\ outfit = None
    /\ text = None
    /\ seen = None
    /\ SimIdle
    /\ ScoreIdle /\ FeedIdle /\ TrendIdle
    /\ AppIdle

Restart ==
    /\ outfit # None
    /\ seen' = Some([ctx |-> Val(ctx), outfit |-> Val(outfit)])
    /\ rawHash' \in [1..Len(items) -> RawHashes]
    /\ ctx' = None
    /\ outfit' = None
    /\ text' = None
    /\ UNCHANGED items
    /\ UNCHANGED <<simVars, scoreVars, feedVars, trendVars>>
    /\ UNCHANGED appVars

NextRestart ==
    \/ \E c \in ComposeCtxs : Compose(c)
    \/ Restart

SpecRestart == InitRestart /\ [][NextRestart]_vars

(* C5: for a fixed item collection and a fixed context, two calls of       *)
(* pick_best_items return the same outfit; the result depends on no hidden *)
(* time-based or random state.                                             *)
C5_SameInputsSameOutfit ==
    (outfit # None /\ seen # None /\ Val(seen).ctx = Val(ctx)) =>
        Val(outfit) = Val(seen).outfit

(***************************************************************************)
(* ctx_similarity applied to two contexts.                                 *)
(***************************************************************************)
SimTemps == {-3, 17, 24}
SimPrecips == {10, 30, 90}
SimTpos == {"work", "school"}
SimMoods == {<<>>, <<"minimal">>, <<"minimal", "casual">>}

Opt(S) == {None} \cup {Some(v) : v \in S}

\* contexts as stored with a post: any of the four fields may be missing
SimCtxs ==
    { [temp_c |-> t, precip_prob |-> p, tpo |-> o, mood |-> m,
       formality_need |-> None,
       season |-> IF t = None THEN None ELSE Some(season_from_temp(t))] :
        t \in Opt(SimTemps), p \in Opt(SimPrecips), o \in Opt(SimTpos), m \in Opt(SimMoods) }

JaccardIdle == moodsA = None /\ moodsB = None /\ jac = None

InitSim ==
    /\ ctxA \in SimCtxs
    /\ ctxB \in SimCtxs
    /\ sim = None
    /\ JaccardIdle
    /\ ComposeIdle
    /\ ScoreIdle /\ FeedIdle /\ TrendIdle
    /\ AppIdle

Similarity ==
    /\ sim = None
    /\ sim' = Some(ctx_similarity(ctxA, ctxB))
    /\ UNCHANGED <<ctxA, ctxB, moodsA, moodsB, jac>>
    /\ UNCHANGED <<composeVars, scoreVars, feedVars, trendVars>>
    /\ UNCHANGED appVars

NextSim == Similarity

SpecSim == InitSim /\ [][NextSim]_vars

\* a context gives the dimension a value
HasTemp(c) == c.temp_c # None
HasPrecip(c) == c.precip_prob # None
HasTpo(c) == Truthy(c.tpo)
HasMood(c) == c.mood # None

BothTemp(a, b) == HasTemp(a) /\ HasTemp(b)
BothPrecip(a, b) == HasPrecip(a) /\ HasPrecip(b)
BothTpo(a, b) == HasTpo(a) /\ HasTpo(b)
BothMood(a, b) == HasMood(a) /\ HasMood(b)

SomeComparable(a, b) == BothTemp(a, b) \/ BothPrecip(a, b) \/ BothTpo(a, b) \/ BothMood(a, b)

\* |A n B| / |A u B| of two mood lists, 1 for two empty ones and 0 for one empty one
MoodOverlap(la, lb) ==
    LET A == Range(la)
        B == Range(lb)
    IN IF A = {} /\ B = {} THEN R(1, 1)
       ELSE IF A = {} \/ B = {} THEN R(0, 1)
       ELSE R(Cardinality(A \cap B), Cardinality(A \cup B))

\* the weighted sum over the dimensions both contexts give, and the sum of their weights
RenormScore(a, b) ==
    RAdd(RAdd(IF BothTemp(a, b) THEN RMul(TempScore(a, b), R(W_TEMP, 100)) ELSE R(0, 1),
              IF BothPrecip(a, b) THEN RMul(PrecipScore(a, b), R(W_PRECIP, 100)) ELSE R(0, 1)),
         RAdd(IF BothTpo(a, b) THEN RMul(TpoScore(a, b), R(W_TPO, 100)) ELSE R(0, 1),
              IF BothMood(a, b)
              THEN RMul(MoodOverlap(Val(a.mood), Val(b.mood)), R(W_MOOD, 100)) ELSE R(0, 1)))

RenormWeight(a, b) ==
    (IF BothTemp(a, b) THEN W_TEMP ELSE 0) + (IF BothPrecip(a, b) THEN W_PRECIP ELSE 0)
    + (IF BothTpo(a, b) THEN W_TPO ELSE 0) + (IF BothMood(a, b) THEN W_MOOD ELSE 0)

(* C6: for every pair of contexts, each dimension present or absent,       *)
(* ctx_similarity is at least 0 and at most 1.                             *)
C6_SimilarityBounds ==
    sim # None => (RLe(R(0, 1), Val(sim)) /\ RLe(Val(sim), R(1, 1)))

\* a similarity strictly between 0 and 1, of two contexts that lack different fields
C6_Witness ==
    /\ sim # None
    /\ ~RLe(Val(sim), R(0, 1))
    /\ ~RLe(R(1, 1), Val(sim))
    /\ ~HasTemp(ctxA)
    /\ ~HasPrecip(ctxB)

(* C7: for every context a with at least one comparable dimension,         *)
(* ctx_similarity(a, a) is exactly 1.                                      *)
C7_SelfSimilarityOne ==
    (sim # None /\ ctxA = ctxB /\ SomeComparable(ctxA, ctxA)) => REq(Val(sim), R(1, 1))

\* a context compared with itself, with some fields and an empty mood list
C7_Witness ==
    /\ sim # None
    /\ ctxA = ctxB
    /\ HasTemp(ctxA)
    /\ ~HasPrecip(ctxA)
    /\ ctxA.mood = Some(<<>>)
    /\ REq(Val(sim), R(1, 1))

(* C8: when no dimension has a value in both contexts, ctx_similarity      *)
(* returns 0.                                                              *)
C8_NothingComparableIsZero ==
    (sim # None /\ ~SomeComparable(ctxA, ctxB)) => REq(Val(sim), R(0, 1))

(* C9: ctx_similarity is the weighted sum of the scores of exactly the     *)
(* dimensions both contexts give a value for, divided by the sum of the    *)
(* weights of those dimensions.                                            *)
C9_RenormalizedAverage ==
    (sim # None /\ SomeComparable(ctxA, ctxB)) =>
        REq(Val(sim), RDiv(RenormScore(ctxA, ctxB), R(RenormWeight(ctxA, ctxB), 100)))

(***************************************************************************)
(* jaccard applied to two mood lists.                                      *)
(***************************************************************************)
MoodNames == {"minimal", "casual", "formal"}

MoodLists == UNION { [1..n -> MoodNames] : n \in 0..MaxMoodLen }

InitJaccard ==
    /\ moodsA \in Opt(MoodLists)
    /\ moodsB \in Opt(MoodLists)
    /\ jac = None
    /\ ctxA = EmptyCtx /\ ctxB = EmptyCtx /\ sim = None
    /\ ComposeIdle
    /\ ScoreIdle /\ FeedIdle /\ TrendIdle
    /\ AppIdle

Jaccard ==
    /\ jac = None
    /\ jac' = Some(jaccard(moodsA, moodsB))
    /\ UNCHANGED <<moodsA, moodsB, ctxA, ctxB, sim>>
    /\ UNCHANGED <<composeVars, scoreVars, feedVars, trendVars>>
    /\ UNCHANGED appVars

NextJaccard == Jaccard

SpecJaccard == InitJaccard /\ [][NextJaccard]_vars

(* C10: jaccard is 1 when both mood sets are empty, 0 when exactly one is, *)
(* and otherwise |A n B| / |A u B| of the deduplicated sets, so that       *)
(* duplicates and order in the lists do not change the result.             *)
C10_JaccardOfSets ==
    jac # None =>
        LET A == Range(OrEmpty(moodsA))
            B == Range(OrEmpty(moodsB))
        IN /\ (A = {} /\ B = {}) => REq(Val(jac), R(1, 1))
           /\ ((A = {}) # (B = {})) => REq(Val(jac), R(0, 1))
           /\ (A # {} /\ B # {}) =>
                /\ Val(jac)[2] > 0
                /\ REq(Val(jac), R(Cardinality(A \cap B), Cardinality(A \cup B)))

\* two lists that overlap in part, one of them with a duplicate
C10_Witness ==
    /\ jac # None
    /\ moodsA # None /\ moodsB # None
    /\ Len(Val(moodsA)) > Cardinality(Range(Val(moodsA)))
    /\ Range(Val(moodsA)) \cap Range(Val(moodsB)) # {}
    /\ Range(Val(moodsB)) \ Range(Val(moodsA)) # {}

\* two mood lists of two distinct moods each that share exactly one mood
OneSharedOfTwoEach ==
    /\ jac # None
    /\ Cardinality(Range(OrEmpty(moodsA))) = 2
    /\ Cardinality(Range(OrEmpty(moodsB))) = 2
    /\ Cardinality(Range(OrEmpty(moodsA)) \cap Range(OrEmpty(moodsB))) = 1

(* C11: the mood overlap of two sets of two moods each that share exactly  *)
(* one mood, such as {a, b} and {b, c}, is 0.5.                            *)
C11_OneSharedIsHalf == OneSharedOfTwoEach => REq(Val(jac), R(1, 2))

(* C11, amended: the mood overlap of two sets of two moods each that share *)
(* exactly one mood is 1/3: one shared mood out of three in the union.     *)
C11_OneSharedIsThird == OneSharedOfTwoEach => REq(Val(jac), R(1, 3))

\* jaccard ran on <<minimal, casual>> and <<casual, formal>>
C11_Witness ==
    /\ jac # None
    /\ moodsA = Some(<<"minimal", "casual">>)
    /\ moodsB = Some(<<"casual", "formal">>)
    /\ OneSharedOfTwoEach

(***************************************************************************)
(* ctx_similarity applied to two contexts that differ in temperature.      *)
(***************************************************************************)
TempRange == -7 .. 26

TempCtxs ==
    { [EmptyCtx EXCEPT !.temp_c = t, !.mood = m,
                       !.season = IF t = None THEN None ELSE Some(season_from_temp(t))] :
        t \in Opt(TempRange), m \in {None, Some(<<"minimal">>)} }

InitTempSim ==
    /\ ctxA \in TempCtxs
    /\ ctxB \in TempCtxs
    /\ sim = None
    /\ JaccardIdle
    /\ ComposeIdle
    /\ ScoreIdle /\ FeedIdle /\ TrendIdle
    /\ AppIdle

SpecTempSim == InitTempSim /\ [][NextSim]_vars

\* floor(t / 5): the integer k with 5k <= t < 5k + 5
Floor5(t) == CHOOSE k \in -10 .. 10 : 5 * k <= t /\ t < 5 * k + 5

\* 1.0 for equal buckets, 0.3 for buckets one apart, 0.0 otherwise
BucketContribution(ba, bb) ==
    IF ba = bb THEN R(1, 1)
    ELSE IF ba - bb = 1 \/ bb - ba = 1 THEN R(3, 10)
    ELSE R(0, 1)

(* C12: the temperature dimension of ctx_similarity uses the bucket        *)
(* floor(temperature / 5), for negative temperatures too, and contributes  *)
(* 1.0 for equal buckets, 0.3 for buckets that differ by exactly 1 and 0.0 *)
(* otherwise; 17 and 19 are both in bucket 3, 17 and 24 in the adjacent    *)
(* buckets 3 and 4.                                                        *)
C12_TemperatureBuckets ==
    (sim # None /\ BothTemp(ctxA, ctxB)) =>
        LET ta == Val(ctxA.temp_c)
            tb == Val(ctxB.temp_c)
            rest == SimScore([ctxA EXCEPT !.temp_c = None], ctxB)
            contribution == BucketContribution(Floor5(ta), Floor5(tb))
        IN /\ bucket_temp(ta) = Floor5(ta)
           /\ bucket_temp(tb) = Floor5(tb)
           /\ REq(Val(sim), RDiv(RAdd(rest, RMul(contribution, R(W_TEMP, 100))),
                                 R(SimWeight(ctxA, ctxB), 100)))
           /\ (ta = 17 /\ tb = 19) =>
                (bucket_temp(ta) = 3 /\ bucket_temp(tb) = 3 /\ TempScore(ctxA, ctxB) = R(1, 1))
           /\ (ta = 17 /\ tb = 24) =>
                (bucket_temp(ta) = 3 /\ bucket_temp(tb) = 4 /\ TempScore(ctxA, ctxB) = R(3, 10))

\* -3 and 2 degrees: buckets -1 and 0, adjacent, so (0.3 * 0.30 + 0.20) / 0.50
C12_Witness ==
    /\ sim # None
    /\ ctxA.temp_c = Some(-3)
    /\ ctxB.temp_c = Some(2)
    /\ ctxA.mood = None /\ ctxB.mood = None
    /\ Val(sim) = R(29, 50)

(***************************************************************************)
(* season_from_temp applied to a temperature, or to none.                  *)
(***************************************************************************)
SeasonTemps == -15 .. 45

InitSeason ==
    /\ tempArg \in Opt(SeasonTemps)
    /\ seasonRes = None
    /\ itemScore = None
    /\ ComposeIdle /\ SimIdle /\ FeedIdle /\ TrendIdle
    /\ AppIdle

\* "season": season_from_temp(temp_c)
Season ==
    /\ seasonRes = None
    /\ seasonRes' = Some(season_from_temp(tempArg))
    /\ UNCHANGED <<tempArg, itemScore>>
    /\ UNCHANGED <<composeVars, simVars, feedVars, trendVars>>
    /\ UNCHANGED appVars

NextSeason == Season

SpecSeason == InitSeason /\ [][NextSeason]_vars

(* C13: season_from_temp is total: it maps an absent temperature to mild,  *)
(* t <= 5 to winter, 5 < t <= 16 to spring_fall, 16 < t <= 26 to mild and  *)
(* t > 26 to summer; the boundary values 5, 16 and 26 belong to the lower  *)
(* season.                                                                 *)
C13_SeasonThresholds ==
    seasonRes # None =>
        LET r == Val(seasonRes)
            t == Val(tempArg)
        IN /\ r \in {"winter", "spring_fall", "mild", "summer"}
           /\ tempArg = None => r = "mild"
           /\ tempArg # None =>
                /\ (t <= 5) => r = "winter"
                /\ (5 < t /\ t <= 16) => r = "spring_fall"
                /\ (16 < t /\ t <= 26) => r = "mild"
                /\ (t > 26) => r = "summer"
                /\ (t = 5) => r = "winter"
                /\ (t = 16) => r = "spring_fall"
                /\ (t = 26) => r = "mild"

\* season_from_temp ran on the boundary value 16
C13_Witness ==
    /\ seasonRes = Some("spring_fall")
    /\ tempArg = Some(16)

(***************************************************************************)
(* score_item_for_context applied to an item and a context.                *)
(***************************************************************************)
Categories == {"top", "bottom", "dress", "outer", "shoes", "socks", "accessory", "bag"}

Occasions == {"work", "interview", "wedding", "exercise", "travel", "date", "school",
              "casual_outing", "other"}

ScoreTagSets == {{}, {"casual"}, {"formal"}, {"office"}, {"exercise"}, {"waterproof"},
                 {"rain"}, {"casual", "formal"}, {"exercise", "formal"}}

\* every category with every tag set, and tops of every colour, warmth and formality
ScoreItems ==
    { Item("item", cat, "white", tags, 12, 4, FALSE) : cat \in Categories, tags \in ScoreTagSets }
    \cup { Item("item", "top", col, tags, w, f, FALSE) :
              col \in {"black", "navy", "gray", "white"}, tags \in {{}, {"rain"}},
              w \in {2, 12, 18}, f \in {4, 16} }

\* contexts with any of occasion, temperature (and the season derived from it),
\* precipitation probability and formality preference missing
ScoreCtxs ==
    { [temp_c |-> t, precip_prob |-> p, tpo |-> o, mood |-> Some(<<>>),
       formality_need |-> n,
       season |-> IF t = None THEN None ELSE Some(season_from_temp(t))] :
        t \in Opt({3, 10, 20, 30}), p \in Opt({49, 50}), o \in Opt(Occasions),
        n \in Opt({12}) }

InitScore ==
    /\ items \in { <<[it EXCEPT !.id = 1]>> : it \in ScoreItems }
    /\ rawHash \in [1..1 -> RawHashes]
    /\ ctx = None
    /\ outfit = None
    /\ text = None
    /\ seen = None
    /\ tempArg = None /\ seasonRes = None
    /\ itemScore = None
    /\ SimIdle /\ FeedIdle /\ TrendIdle
    /\ AppIdle

\* score_item_for_context(it, ctx), as best calls it for an item of the wardrobe
Score(c) ==
    /\ itemScore = None
    /\ ctx' = Some(c)
    /\ itemScore' = Some(score_item_for_context(items[1], c))
    /\ UNCHANGED <<items, rawHash, outfit, text, seen, tempArg, seasonRes>>
    /\ UNCHANGED <<simVars, feedVars, trendVars>>
    /\ UNCHANGED appVars

NextScore == \E c \in ScoreCtxs : Score(c)

SpecScore == InitScore /\ [][NextScore]_vars

\* the item scored and the context it was scored for
Scored == items[1]
ScoredCtx == Val(ctx)

\* the five contributions, in 1/200
OccasionTerm(it, o) ==
    IF o \in {"work", "interview", "wedding"}
    THEN (IF it.category \in {"top", "bottom", "outer", "shoes", "dress"} THEN 120 ELSE 0)
         - (IF "casual" \in it.tags THEN 40 ELSE 0)
         + (IF {"formal", "office"} \cap it.tags # {} THEN 40 ELSE 0)
    ELSE IF o = "exercise"
    THEN (IF "exercise" \in it.tags \/ it.category \in {"shoes", "top", "bottom"}
          THEN 120 ELSE 0)
         - (IF "formal" \in it.tags THEN 40 ELSE 0)
    ELSE IF o \in {"travel", "date", "school", "casual_outing"} THEN 40
    ELSE 0

WarmthTerm(it, s) ==
    IF s = "winter" THEN 8 * it.warmth - 48
    ELSE IF s = "summer" THEN 112 - 8 * it.warmth
    ELSE IF it.warmth >= 12 THEN 3 * (24 - it.warmth) ELSE 3 * it.warmth

RainTerm(it, p) ==
    IF p >= 50
    THEN (IF {"waterproof", "rain"} \cap it.tags # {} THEN 80 ELSE 0)
         + (IF it.color \in {"black", "navy", "gray"} THEN 20 ELSE 0)
    ELSE 0

FormalityTerm(it, n) ==
    IF it.formality >= n THEN 160 - 8 * (it.formality - n) ELSE 160 - 8 * (n - it.formality)

TieTerm(it) == rawHash[it.id] % HashMod

(* C14: the score of an item for a context is the sum of exactly five      *)
(* contributions: the occasion fit, the season/warmth fit, the rain        *)
(* adjustment (only for a precipitation probability of 50 or more), the    *)
(* formality fit 0.8 * (1 - |formality - preference|) and the tie-break.   *)
C14_ScoreIsSumOfFive ==
    (/\ itemScore # None
     /\ ScoredCtx.tpo # None
     /\ ScoredCtx.season # None
     /\ ScoredCtx.formality_need # None) =>
        Val(itemScore) =
            OccasionTerm(Scored, Val(ScoredCtx.tpo))
            + WarmthTerm(Scored, Val(ScoredCtx.season))
            + (IF ScoredCtx.precip_prob # None
               THEN RainTerm(Scored, Val(ScoredCtx.precip_prob)) ELSE 0)
            + FormalityTerm(Scored, Val(ScoredCtx.formality_need))
            + TieTerm(Scored)

\* a formal top in the rain, scored for a wedding in winter:
\* 0.6 + 0.2 + 0.8 * (0.9 - 0.3) + 0.4 + 0.1 + 0.8 * (1 - 0.2) + tie-break
C14_Witness ==
    /\ itemScore # None
    /\ ScoredCtx.tpo = Some("wedding")
    /\ ScoredCtx.season = Some("winter")
    /\ ScoredCtx.precip_prob = Some(50)
    /\ ScoredCtx.formality_need = Some(12)
    /\ Scored.category = "top" /\ Scored.tags = {"rain"} /\ Scored.color = "navy"
    /\ Scored.warmth = 18 /\ Scored.formality = 16
    /\ Val(itemScore) = 120 + 96 + 80 + 20 + 128 + TieTerm(Scored)

(* C15: a missing optional numeric context field raises no error and the   *)
(* term that depends on it contributes exactly zero: without precipitation *)
(* probability the rain adjustment is 0, and without temperature (hence    *)
(* without season) the season/warmth term is 0.                            *)
C15_MissingFieldsContributeZero ==
    (/\ itemScore # None
     /\ ScoredCtx.tpo # None
     /\ ScoredCtx.formality_need # None) =>
        Val(itemScore) =
            OccasionTerm(Scored, Val(ScoredCtx.tpo))
            + (IF ScoredCtx.temp_c = None THEN 0
               ELSE WarmthTerm(Scored, Val(ScoredCtx.season)))
            + (IF ScoredCtx.precip_prob = None THEN 0
               ELSE RainTerm(Scored, Val(ScoredCtx.precip_prob)))
            + FormalityTerm(Scored, Val(ScoredCtx.formality_need))
            + TieTerm(Scored)

(***************************************************************************)
(* The scorer across server processes: the item is reloaded from db.json   *)
(* and hash() of its id is salted anew.                                    *)
(***************************************************************************)
\* hash(id): enough values to give every remainder of 0..16, from negative ones too
TieHashes == -20 .. 40

TieCtxs == { BuildCtx(w[1], w[2], "work", <<"minimal">>, 12) : w \in Weathers }

InitTie ==
    /\ items \in { <<[it EXCEPT !.id = 1]>> : it \in {Tee, WoolSocks} }
    /\ rawHash \in [1..1 -> TieHashes]
    /\ ctx = None
    /\ outfit = None
    /\ text = None
    /\ seen = None
    /\ tempArg = None /\ seasonRes = None
    /\ itemScore = None
    /\ SimIdle /\ FeedIdle /\ TrendIdle
    /\ AppIdle

\* a new server process: the same db.json, an empty session, a new hash salt
RestartScore ==
    /\ itemScore # None
    /\ seen = None
    /\ seen' = Some([ctx |-> Val(ctx), score |-> Val(itemScore)])
    /\ rawHash' \in [1..1 -> TieHashes]
    /\ ctx' = None
    /\ itemScore' = None
    /\ UNCHANGED <<items, outfit, text, tempArg, seasonRes>>
    /\ UNCHANGED <<simVars, feedVars, trendVars>>
    /\ UNCHANGED appVars

NextTie ==
    \/ \E c \in TieCtxs : Score(c)
    \/ RestartScore

SpecTie == InitTie /\ [][NextTie]_vars

\* what the score holds beyond the four fit terms, in 1/200
TiePart ==
    Val(itemScore) - (OccasionFit(Scored, ScoredCtx) + SeasonFit(Scored, ScoredCtx)
                      + RainFit(Scored, ScoredCtx) + FormalityFit(Scored, ScoredCtx))

(* C16: for every item id the tie-break term (hash(id) mod 17) / 200 of    *)
(* the score is at least 0 and strictly less than 0.08, and is the same    *)
(* value every time the same id is scored.                                 *)
C16_TieBreakRangeAndStable ==
    itemScore # None =>
        /\ 0 <= TiePart
        /\ TiePart < 16
        /\ (seen # None /\ Val(seen).ctx = ScoredCtx) => Val(seen).score = Val(itemScore)

(***************************************************************************)
(* trending_score.  Times are in units of 1800 seconds, so that an hour is *)
(* 2 and half an hour is 1.  The ages of the model are at most one hour,   *)
(* or 4, 9 or 16 hours: their square roots are whole numbers.              *)
(***************************************************************************)
MaxLikes == 10

\* math.sqrt of a rational that is a perfect square
ISqrt(n) == CHOOSE k \in 0 .. n : k * k = n
RSqrt(x) == R(ISqrt(x[1]), ISqrt(x[2]))

\* likes / age_hr: the square root is forgotten
trending_score_linear(post, likes, now) ==
    LET created_at == IF post.created_at = None THEN now ELSE Val(post.created_at)
        age_hr == RMax(R(1, 1), R(now - created_at, 2))
    IN RDiv(R(likes, 1), age_hr)

\* now is now_ts() at the call
trending_score(post, likes, now) ==
    LET created_at == IF post.created_at = None THEN now ELSE Val(post.created_at)
        age_hr == RMax(R(1, 1), R(now - created_at, 2))
    IN RDiv(R(likes, 1), RSqrt(age_hr))

\* the post is created at 40; the clock reads 2 before it (a timestamp in the future),
\* then 0, 1/2, 1, 4, 9 and 16 hours after it
TrendClocks == {38, 40, 41, 42, 48, 58, 72}

InitTrend ==
    /\ trPost \in { [created_at |-> c] : c \in Opt({40}) }
    /\ trLikes \in 0 .. MaxLikes
    /\ clock \in TrendClocks
    /\ trend = None
    /\ trendOld = None
    /\ posts = <<>> /\ likesMap = <<>> /\ reqCtx = EmptyCtx /\ topK = 0 /\ refs = None
    /\ ComposeIdle /\ SimIdle /\ ScoreIdle
    /\ AppIdle

\* trending_score(p, likes), as the feed tab sorts by it
Trend ==
    /\ trend = None
    /\ trend' = Some(trending_score(trPost, trLikes, clock))
    /\ UNCHANGED <<trPost, trLikes, trendOld, clock>>
    /\ UNCHANGED <<posts, likesMap, reqCtx, topK, refs>>
    /\ UNCHANGED <<composeVars, simVars, scoreVars>>
    /\ UNCHANGED appVars

\* time passes between two renderings of the feed
Age ==
    /\ trend # None
    /\ \E t \in TrendClocks : t > clock /\ clock' = t
    /\ trendOld' = trend
    /\ trend' = None
    /\ UNCHANGED <<trPost, trLikes>>
    /\ UNCHANGED <<posts, likesMap, reqCtx, topK, refs>>
    /\ UNCHANGED <<composeVars, simVars, scoreVars>>
    /\ UNCHANGED appVars

\* the like button: db["likes"][post["id"]] = likes + 1
Like ==
    /\ trLikes < MaxLikes
    /\ trLikes' = trLikes + 1
    /\ trend' = None
    /\ trendOld' = None
    /\ UNCHANGED <<trPost, clock>>
    /\ UNCHANGED <<posts, likesMap, reqCtx, topK, refs>>
    /\ UNCHANGED <<composeVars, simVars, scoreVars>>
    /\ UNCHANGED appVars

NextTrend == Trend \/ Age \/ Like

SpecTrend == InitTrend /\ [][NextTrend]_vars

\* the age of the post in units of 1800 seconds: 0 without a creation timestamp
AgeTicks == IF trPost.created_at = None THEN 0 ELSE clock - Val(trPost.created_at)

\* max(1, ageInHours)
FlooredAge == IF AgeTicks < 2 THEN R(1, 1) ELSE R(AgeTicks, 2)

(* C20: trending_score is likes / sqrt(max(1, ageInHours)): a post younger *)
(* than one hour, one without creation timestamp or with one in the future *)
(* included, has trend equal to its like count; with the likes fixed the   *)
(* trend never increases as the post ages; a post with 10 likes has trend  *)
(* 10 at age 1 hour and 5 at age 4 hours.                                  *)
C20_TrendingScore ==
    trend # None =>
        LET x == Val(trend)
        IN /\ RLe(R(0, 1), x)
           /\ REq(RMul(RMul(x, x), FlooredAge), R(trLikes * trLikes, 1))
           /\ AgeTicks < 2 => REq(x, R(trLikes, 1))
           /\ trendOld # None => RLe(x, Val(trendOld))
           /\ (trLikes = 10 /\ AgeTicks = 2) => x = R(10, 1)
           /\ (trLikes = 10 /\ AgeTicks = 8) => x = R(5, 1)

\* a post with 10 likes seen at age 1 hour, then at age 4 hours
C20_Witness ==
    /\ trLikes = 10
    /\ AgeTicks = 8
    /\ trendOld = Some(R(10, 1))
    /\ trend = Some(R(5, 1))

(***************************************************************************)
(* get_similar_references                                                  *)
(***************************************************************************)
MaxPosts == 3

\* int(likes_map.get(p.get("id", ""), 0))
LikesOf(p, likes_map) == IF likes_map[p.id] = None THEN 0 ELSE Val(likes_map[p.id])

\* p.get("ctx", {}) or {}
PostCtx(p) == IF p.ctx = None THEN EmptyCtx ELSE Val(p.ctx)

\* final = trend part only: the similarity is forgotten
final_trend_only(sm, tr) == RMul(RMin(R(1, 1), RDiv(tr, R(5, 1))), R(25, 100))

\* final = sim * 0.75 + (min(1.0, trend / 5.0)) * 0.25
final(sm, tr) ==
    RAdd(RMul(sm, R(75, 100)), RMul(RMin(R(1, 1), RDiv(tr, R(5, 1))), R(25, 100)))

\* the tuple (final, sim, likes, p) appended to scored
ScoredPost(p, c, likes_map, now) ==
    LET sm == ctx_similarity(c, PostCtx(p))
        likes == LikesOf(p, likes_map)
        tr == trending_score(p, likes, now)
    IN [final |-> final(sm, tr), sim |-> sm, likes |-> likes, p |-> p]

\* an entry goes before the entries of equal final that preceded it
InsertByFinal_unstable(e, s) ==
    LET before == SelectSeq(s, LAMBDA x : ~RLe(x.final, e.final))
        after == SelectSeq(s, LAMBDA x : RLe(x.final, e.final))
    IN before \o <<e>> \o after

\* scored.sort(key=lambda x: x[0], reverse=True): a stable sort, an entry stays behind
\* the entries of equal final that preceded it
InsertByFinal(e, s) ==
    LET before == SelectSeq(s, LAMBDA x : RLe(e.final, x.final))
        after == SelectSeq(s, LAMBDA x : ~RLe(e.final, x.final))
    IN before \o <<e>> \o after

RECURSIVE SortByFinal(_)
SortByFinal(s) ==
    IF s = <<>> THEN <<>>
    ELSE InsertByFinal(s[Len(s)], SortByFinal(SubSeq(s, 1, Len(s) - 1)))

\* scored[:top_k]; a negative top_k drops entries from the end
Slice(s, top_k) ==
    IF top_k >= 0 THEN SubSeq(s, 1, IF top_k < Len(s) THEN top_k ELSE Len(s))
    ELSE SubSeq(s, 1, Max(0, Len(s) + top_k))

\* cp = dict(p); cp["_sim"] = sim; cp["_likes"] = likes
Annotated(e) ==
    [id |-> e.p.id, ctx |-> e.p.ctx, created_at |-> e.p.created_at,
     _sim |-> e.sim, _likes |-> e.likes]

get_similar_references(ps, likes_map, c, top_k, now) ==
    LET scored == SortByFinal([i \in 1..Len(ps) |-> ScoredPost(ps[i], c, likes_map, now)])
        kept == Slice(scored, top_k)
    IN [i \in 1..Len(kept) |-> Annotated(kept[i])]

(***************************************************************************)
(* The reference ranker applied to a feed.  The clock reads 72; a post is  *)
(* created at 70 (age 1 hour) or at 64 (age 4 hours), or has no timestamp. *)
(***************************************************************************)
FeedRequest == BuildCtx(17, 10, "work", <<"minimal">>, 12)

\* a context 7 degrees warmer than the request: an adjacent temperature bucket,
\* similarity 0.79
FeedNear == BuildCtx(24, 10, "work", <<"minimal">>, 12)

FeedKind(c, created_at, likes) == [ctx |-> c, created_at |-> created_at, likes |-> likes]

\* posts with the request's own context (similarity 1) and trends 20, 5, 5/2 and 0,
\* posts with the warmer context and posts without context (similarity 0)
FeedKinds ==
    { FeedKind(Some(FeedRequest), Some(70), Some(20)),
      FeedKind(Some(FeedRequest), Some(70), Some(5)),
      FeedKind(Some(FeedRequest), Some(64), Some(5)),
      FeedKind(Some(FeedRequest), None, None),
      FeedKind(Some(FeedNear), Some(70), Some(20)),
      FeedKind(Some(FeedNear), Some(64), Some(5)),
      FeedKind(None, Some(70), Some(5)),
      FeedKind(None, None, None) }

InitFeed ==
    /\ \E n \in 0 .. MaxPosts : \E k \in [1..n -> FeedKinds] :
          /\ posts = [i \in 1..n |-> [id |-> i, ctx |-> k[i].ctx, created_at |-> k[i].created_at]]
          /\ likesMap = [i \in 1..n |-> k[i].likes]
    /\ clock = 72
    /\ reqCtx = FeedRequest
    /\ topK \in 0 .. MaxPosts
    /\ refs = None
    /\ TrendIdle
    /\ ComposeIdle /\ SimIdle /\ ScoreIdle
    /\ AppIdle

\* refs = get_similar_references(db, ctx, top_k=3)
References ==
    /\ refs = None
    /\ refs' = Some(get_similar_references(posts, likesMap, reqCtx, topK, clock))
    /\ UNCHANGED <<posts, likesMap, clock, reqCtx, topK>>
    /\ UNCHANGED <<composeVars, simVars, scoreVars, trendVars>>
    /\ UNCHANGED appVars

NextFeed == References

SpecFeed == InitFeed /\ [][NextFeed]_vars

\* similarity to the request, trend and final of the post with id i
SimOf(i) == ctx_similarity(reqCtx, PostCtx(posts[i]))
TrendOf(i) == trending_score(posts[i], LikesOf(posts[i], likesMap), clock)
FinalOf(i) ==
    RAdd(RMul(R(3, 4), SimOf(i)),
         RMul(R(1, 4), IF RLe(R(5, 1), TrendOf(i)) THEN R(1, 1) ELSE RDiv(TrendOf(i), R(5, 1))))

\* the position of the post with id i in the result, 0 if it is not in it
RankOf(i) ==
    LET out == Val(refs)
    IN IF \E j \in 1..Len(out) : out[j].id = i
       THEN CHOOSE j \in 1..Len(out) : out[j].id = i
       ELSE 0

\* post a is ranked above post b: if b is in the result, a is in it, before b
RankedAbove(a, b) == RankOf(b) # 0 => (RankOf(a) # 0 /\ RankOf(a) < RankOf(b))

(* C17: for every list of posts and every non-negative top_k the result    *)
(* has min(top_k, number of posts) entries, in order of non-increasing     *)
(* final = 0.75 * sim + 0.25 * min(1, trend / 5), posts of equal final in  *)
(* their input order; each entry is an input post annotated with its own   *)
(* similarity and like count.                                              *)
C17_TopKByFinal ==
    refs # None =>
        LET out == Val(refs)
        IN /\ Len(out) = (IF topK < Len(posts) THEN topK ELSE Len(posts))
           /\ Len(out) <= topK
           /\ \A i, j \in 1..Len(out) :
                i < j =>
                    /\ RLe(FinalOf(out[j].id), FinalOf(out[i].id))
                    /\ REq(FinalOf(out[j].id), FinalOf(out[i].id)) => out[i].id < out[j].id
           /\ \A j \in 1..Len(out) :
                \E i \in 1..Len(posts) :
                    /\ out[j].id = i
                    /\ out[j].ctx = posts[i].ctx
                    /\ out[j].created_at = posts[i].created_at
                    /\ out[j]._sim = SimOf(i)
                    /\ out[j]._likes = LikesOf(posts[i], likesMap)

\* three posts for top_k = 2: the first two tie and keep their order, the third is cut
C17_Witness ==
    /\ refs # None
    /\ Len(posts) = 3
    /\ topK = 2
    /\ REq(FinalOf(1), FinalOf(2))
    /\ ~RLe(FinalOf(1), FinalOf(3))
    /\ Val(refs)[1].id = 1
    /\ Val(refs)[2].id = 2

\* two posts of equal similarity to the request, a with the strictly higher trend
HigherTrendSameSim(a, b) ==
    /\ a # b
    /\ REq(SimOf(a), SimOf(b))
    /\ ~RLe(TrendOf(a), TrendOf(b))

(* C18: of two posts with equal similarity to the request context, the one *)
(* with the strictly higher trend is ranked above the other, for every     *)
(* like count, age and input order of the two.                             *)
C18_HigherTrendRanksAbove ==
    refs # None =>
        \A a, b \in 1..Len(posts) : HigherTrendSameSim(a, b) => RankedAbove(a, b)

(* C19: of two posts with equal trend, the one with the strictly higher    *)
(* similarity to the request context is ranked above the other, whatever   *)
(* their input order.                                                      *)
C19_HigherSimilarityRanksAbove ==
    refs # None =>
        \A a, b \in 1..Len(posts) :
            (/\ a # b
             /\ REq(TrendOf(a), TrendOf(b))
             /\ ~RLe(SimOf(a), SimOf(b))) => RankedAbove(a, b)

\* the more similar post comes second in the input and first in the result, before a
\* post of equal trend
C19_Witness ==
    /\ refs # None
    /\ Len(posts) >= 2
    /\ REq(TrendOf(1), TrendOf(2))
    /\ ~RLe(SimOf(2), SimOf(1))
    /\ RankOf(1) = 2
    /\ RankOf(2) = 1

(***************************************************************************)
(* The preset wardrobe of the onboarding form.  A name "{colour} label" is *)
(* the pair <<colour, label>>.                                             *)
(***************************************************************************)
Min(x, y) == IF x <= y THEN x ELSE y

color_palette_from_pref(pref) ==
    IF pref = "achromatic" THEN <<"black", "white", "gray">>
    ELSE IF pref = "tone_down" THEN <<"navy", "beige", "brown", "gray">>
    ELSE IF pref = "color_point" THEN <<"blue", "green", "red", "navy", "white">>
    ELSE <<"black", "white", "gray", "navy", "beige">>

\* in twentieths
formality_from_style(style) ==
    IF style = "minimal" THEN 12
    ELSE IF style = "casual" THEN 6
    ELSE IF style = "formal" THEN 17
    ELSE IF style = "street" THEN 7
    ELSE IF style = "lovely" THEN 10
    ELSE IF style = "sporty" THEN 5
    ELSE IF style = "classic" THEN 15
    ELSE 10

\* the list without duplicates, as a set
tags_from_style(style) ==
    {style}
    \cup (IF style \in {"formal", "classic"} THEN {"neat", "office", "formal"} ELSE {})
    \cup (IF style = "sporty" THEN {"exercise", "activity"} ELSE {})
    \cup (IF style = "casual" THEN {"daily", "casual"} ELSE {})
    \cup (IF style = "minimal" THEN {"achromatic", "basic"} ELSE {})
    \cup (IF style = "lovely" THEN {"date", "delicate"} ELSE {})
    \cup (IF style = "street" THEN {"hip", "layered"} ELSE {})

tpo_from_onboard_context(ctx_str) ==
    IF ctx_str = "school" THEN "school"
    ELSE IF ctx_str = "work" THEN "work"
    ELSE IF ctx_str = "school+work" THEN "school"
    ELSE IF ctx_str = "outing/date" THEN "date"
    ELSE IF ctx_str = "exercise/activity" THEN "exercise"
    ELSE IF ctx_str = "travel" THEN "travel"
    ELSE "casual_outing"

CatalogEntry(category, label, color, warmth, formality, tags) ==
    [category |-> category, name |-> <<color, label>>, color |-> color,
     warmth |-> warmth, formality |-> formality, tags |-> tags]

preset_catalog(style, palette) ==
    LET f == formality_from_style(style)
        tags == tags_from_style(style)
        c(i) == palette[(i % Len(palette)) + 1]
    IN << CatalogEntry("top", "basic tee", c(0), 7, Max(4, f - 3), tags \cup {"plain"}),
          CatalogEntry("top", "shirt/blouse", c(1), 8, Min(20, f + 2), tags \cup {"neat"}),
          CatalogEntry("top", "knit/sweater", c(2), 15, Min(20, f + 1), tags \cup {"warm"}),
          CatalogEntry("top", "sweatshirt/hoodie", c(3), 13, Max(3, f - 5), tags \cup {"casual"}),
          CatalogEntry("bottom", "denim pants", c(0), 11, Max(4, f - 2), tags \cup {"daily"}),
          CatalogEntry("bottom", "slacks/wide pants", c(1), 11, Min(20, f + 3), tags \cup {"neat"}),
          CatalogEntry("bottom", "skirt/shorts", c(2), 7, Min(20, f + 1), tags \cup {"accent"}),
          CatalogEntry("outer", "jacket/blazer", c(0), 11, Min(20, f + 4), tags \cup {"layered"}),
          CatalogEntry("outer", "coat/padding", c(1), 18, Min(20, f + 1), tags \cup {"warm"}),
          CatalogEntry("shoes", "sneakers", c(0), 7, Max(3, f - 5), tags \cup {"daily"}),
          CatalogEntry("shoes", "loafers", c(1), 7, Min(20, f + 4), tags \cup {"formal"}),
          CatalogEntry("bag", "daily bag", c(2), 4, Min(20, f + 1), tags),
          CatalogEntry("accessory", "simple accessory", c(1), 4, Min(20, f + 1), tags \cup {"simple"}) >>

\* the items create_preset_wardrobe appends, their ids new_id's next ones
PresetItems(prof, first_id) ==
    LET cat == preset_catalog(prof.style, color_palette_from_pref(prof.color_pref))
        tags_style == tags_from_style(prof.style)
    IN [i \in 1..Len(cat) |->
           [id |-> first_id + i - 1, name |-> cat[i].name, category |-> cat[i].category,
            color |-> cat[i].color, tags |-> cat[i].tags \cup {"preset"} \cup tags_style,
            warmth |-> cat[i].warmth, formality |-> cat[i].formality, is_preset |-> TRUE]]

\* has_any_items
has_any_items(its) == Len(its) > 0

\* a record that keeps every item: the filter is forgotten
delete_preset_items_keeps_all(its) == its

\* db["items"] after delete_preset_items
delete_preset_items(its) == SelectSeq(its, LAMBDA it : ~it.is_preset)

\* need_onboarding of the main tab
need_onboarding == (~onboarded) /\ (~has_any_items(items))

(***************************************************************************)
(* The app: one browser session on one db.json.  A step is one run of the  *)
(* script with one button pressed.  While need_onboarding holds the script *)
(* stops after the onboarding form (st.stop), so the other tabs and the    *)
(* views of the main tab are reached only when it is false.  The like      *)
(* button of a post card is not pressed here, and an item card is deleted  *)
(* only when it is the newest card and a user-entered item.                *)
(***************************************************************************)
\* item ids that rawHash covers
MaxIds == 17
\* outfits saved between two full resets
MaxSaved == 1
\* user-entered items in the wardrobe
MaxAdded == 2

\* the onboarding form as submitted
AppProfiles ==
    { [style |-> "minimal", context |-> "school", color_pref |-> "achromatic",
       wardrobe_size |-> "medium"] }

\* the add_item form as submitted
AppNewItems == {Hoodie}

\* the conditions of the home view as entered: cold and rainy, work
AppCtxs == { BuildCtx(3, 60, "work", <<"minimal">>, 12) }

\* the feed of db.json: two posts, of which the second has 20 likes
AppFeeds ==
    { [posts |-> << [id |-> 1, ctx |-> Some(FeedNear), created_at |-> Some(70)],
                    [id |-> 2, ctx |-> Some(FeedNear), created_at |-> Some(64)] >>,
       likes |-> <<None, Some(20)>>] }

\* the ids of the wardrobe's items
LiveIds == {items[i].id : i \in 1..Len(items)}

\* new_id(): a uuid4, an id that no item of the wardrobe holds (the id of an outfit
\* record is stored and never read); here the least such id
nextId == CHOOSE n \in 1..(Len(items) + 1) : n \notin LiveIds

UserItems(its) == SelectSeq(its, LAMBDA it : ~it.is_preset)

\* db["items"] after pick_best_items(db, ctx): the function builds by_cat, sorted
\* lists and the outfit dict, and assigns to nothing of db
StoredItemsAfterPick(its, c) == its

\* cp = p: the annotations are written to the stored posts themselves
StoredPostsAnnotated(ps, out) ==
    [i \in 1..Len(ps) |->
        IF \E j \in 1..Len(out) : out[j].id = ps[i].id
        THEN out[CHOOSE j \in 1..Len(out) : out[j].id = ps[i].id]
        ELSE ps[i]]

\* db["posts"] after get_similar_references(db, ctx, top_k): cp = dict(p) is a copy,
\* _sim and _likes are written to the copy
StoredPostsAfterReferences(ps, out) == ps

\* the last_outfit record of the two handlers that compose an outfit
ComposedOutfit(its, c, source) ==
    LET o == pick_best_items(its, c)
    IN [id |-> nextId, created_at |-> clock, ctx |-> c, outfit |-> o,
        outfit_text |-> outfit_to_text(o), source |-> source]

InitApp ==
    /\ items = <<>>
    /\ rawHash = [i \in 1..MaxIds |-> 7 * i]
    /\ \E f \in AppFeeds : posts = f.posts /\ likesMap = f.likes
    /\ clock = 72
    /\ reqCtx = EmptyCtx /\ topK = 0 /\ refs = None
    /\ ctx = None /\ outfit = None /\ text = None /\ seen = None
    /\ AppIdle
    /\ SimIdle /\ ScoreIdle /\ TrendIdle

\* a run of the script that does not reach line 1060: refs is a local of the run
NoReferences == reqCtx' = EmptyCtx /\ topK' = 0 /\ refs' = None

appFrame == <<rawHash, clock, ctx, outfit, text, seen, simVars, scoreVars, trendVars>>

\* the onboarding form submitted: create_preset_wardrobe, then a virtual outfit
OnboardSubmit(prof) ==
    /\ need_onboarding
    /\ nextId + 13 <= MaxIds
    /\ LET presets == PresetItems(prof, nextId)
           stored == items \o presets
           auto_ctx == BuildCtx(18, 20, tpo_from_onboard_context(prof.context),
                                <<prof.style>>, formality_from_style(prof.style))
           o == pick_best_items(stored, auto_ctx)
       IN /\ items' = StoredItemsAfterPick(stored, auto_ctx)
          /\ lastOutfit' = Some([id |-> nextId + Len(presets), created_at |-> clock,
                                 ctx |-> auto_ctx, outfit |-> o,
                                 outfit_text |-> outfit_to_text(o),
                                 source |-> "preset+rules", is_virtual |-> TRUE])
    /\ onboarded' = TRUE
    /\ profile' = Some(prof)
    /\ mainView' = "result"
    /\ UNCHANGED <<savedOutfits, posts, likesMap>>
    /\ NoReferences
    /\ UNCHANGED appFrame

\* "skip": the user registers the wardrobe by hand
OnboardSkip ==
    /\ need_onboarding
    /\ onboarded' = TRUE
    /\ profile' = Some([skipped |-> TRUE])
    /\ UNCHANGED <<items, savedOutfits, mainView, lastOutfit>>
    /\ UNCHANGED <<posts, likesMap>>
    /\ NoReferences
    /\ UNCHANGED appFrame

\* the recommend button of the home view
Recommend(c) ==
    /\ ~need_onboarding
    /\ mainView = "home"
    /\ IF items = <<>>
       THEN UNCHANGED <<items, mainView, lastOutfit>>
       ELSE /\ nextId <= MaxIds
            /\ items' = StoredItemsAfterPick(items, c)
            /\ lastOutfit' = Some(ComposedOutfit(items, c, "rules"))
            /\ mainView' = "result"
    /\ UNCHANGED <<onboarded, profile, savedOutfits>>
    /\ UNCHANGED <<posts, likesMap>>
    /\ NoReferences
    /\ UNCHANGED appFrame

\* refs = get_similar_references(db, ctx, top_k=3) of the result view
RenderReferences ==
    /\ reqCtx' = Val(lastOutfit).ctx
    /\ topK' = 3
    /\ refs' = Some(get_similar_references(posts, likesMap, reqCtx', topK', clock))
    /\ posts' = StoredPostsAfterReferences(posts, Val(refs'))

\* a run of the script in the result view: the guard, then the references
ShowResult ==
    /\ ~need_onboarding
    /\ mainView = "result"
    /\ IF lastOutfit = None
       THEN /\ mainView' = "home"
            /\ UNCHANGED posts
            /\ NoReferences
       ELSE /\ RenderReferences
            /\ UNCHANGED mainView
    /\ UNCHANGED <<items, likesMap, onboarded, profile, savedOutfits, lastOutfit>>
    /\ UNCHANGED appFrame

\* "enter the conditions again"
Back ==
    /\ ~need_onboarding
    /\ mainView = "result"
    /\ lastOutfit # None
    /\ mainView' = "home"
    /\ UNCHANGED <<items, onboarded, profile, savedOutfits, lastOutfit>>
    /\ UNCHANGED <<posts, likesMap>>
    /\ NoReferences
    /\ UNCHANGED appFrame

\* "save the outfit": no rerun, the run goes on to the references
SaveOutfit ==
    /\ ~need_onboarding
    /\ mainView = "result"
    /\ lastOutfit # None
    /\ Len(savedOutfits) < MaxSaved
    /\ savedOutfits' = Append(savedOutfits, Val(lastOutfit))
    /\ RenderReferences
    /\ UNCHANGED <<items, likesMap, onboarded, profile, mainView, lastOutfit>>
    /\ UNCHANGED appFrame

\* the add_item form submitted: db["items"].insert(0, item)
AddItem(it) ==
    /\ ~need_onboarding
    /\ Len(UserItems(items)) < MaxAdded
    /\ nextId <= MaxIds
    /\ items' = <<[it EXCEPT !.id = nextId]>> \o items
    /\ UNCHANGED <<onboarded, profile, savedOutfits, mainView, lastOutfit>>
    /\ UNCHANGED <<posts, likesMap>>
    /\ NoReferences
    /\ UNCHANGED appFrame

\* the delete button of the card at position i of the list, a user-entered item
DeleteItem(i) ==
    /\ ~need_onboarding
    /\ i \in 1..Len(items)
    /\ ~items[i].is_preset
    /\ items' = SelectSeq(items, LAMBDA x : x.id # items[i].id)
    /\ UNCHANGED <<onboarded, profile, savedOutfits, mainView, lastOutfit>>
    /\ UNCHANGED <<posts, likesMap>>
    /\ NoReferences
    /\ UNCHANGED appFrame

\* "delete all preset items", shown while the wardrobe holds a preset item
DeletePresets ==
    /\ ~need_onboarding
    /\ \E i \in 1..Len(items) : items[i].is_preset
    /\ items' = delete_preset_items(items)
    /\ UNCHANGED <<onboarded, profile, savedOutfits, mainView, lastOutfit>>
    /\ UNCHANGED <<posts, likesMap>>
    /\ NoReferences
    /\ UNCHANGED appFrame

\* the session keeps its view: main_view is left as it is
ResetOnboarding_keeps_view ==
    /\ ~need_onboarding
    /\ onboarded' = FALSE
    /\ profile' = None
    /\ items' = delete_preset_items(items)
    /\ lastOutfit' = None
    /\ UNCHANGED <<savedOutfits, mainView>>
    /\ UNCHANGED <<posts, likesMap>>
    /\ NoReferences
    /\ UNCHANGED appFrame

\* "reset the onboarding state"
ResetOnboarding ==
    /\ ~need_onboarding
    /\ onboarded' = FALSE
    /\ profile' = None
    /\ items' = delete_preset_items(items)
    /\ mainView' = "home"
    /\ lastOutfit' = None
    /\ UNCHANGED <<savedOutfits>>
    /\ UNCHANGED <<posts, likesMap>>
    /\ NoReferences
    /\ UNCHANGED appFrame

\* "reset all data": a fresh db
FullReset ==
    /\ ~need_onboarding
    /\ items' = <<>>
    /\ savedOutfits' = <<>>
    /\ posts' = <<>>
    /\ likesMap' = <<>>
    /\ onboarded' = FALSE
    /\ profile' = None
    /\ mainView' = "home"
    /\ lastOutfit' = None
    /\ NoReferences
    /\ UNCHANGED appFrame

\* the page is reloaded: a new session with the defaults of the script's start
NewSession ==
    /\ mainView' = "home"
    /\ lastOutfit' = None
    /\ UNCHANGED <<items, onboarded, profile, savedOutfits>>
    /\ UNCHANGED <<posts, likesMap>>
    /\ NoReferences
    /\ UNCHANGED appFrame

NextApp ==
    \/ \E prof \in AppProfiles : OnboardSubmit(prof)
    \/ OnboardSkip
    \/ \E c \in AppCtxs : Recommend(c)
    \/ ShowResult
    \/ Back
    \/ SaveOutfit
    \/ \E it \in AppNewItems : AddItem(it)
    \/ DeleteItem(1)
    \/ DeletePresets
    \/ ResetOnboarding
    \/ FullReset
    \/ NewSession

SpecApp == InitApp /\ [][NextApp]_vars

(***************************************************************************)
(* The frame of the two rankers inside the app.                            *)
(***************************************************************************)
\* a stored post carries none of the ranker's annotations
Unannotated(ps) ==
    \A i \in 1..Len(ps) : "_sim" \notin DOMAIN ps[i] /\ "_likes" \notin DOMAIN ps[i]

\* C21: pick_best_items and get_similar_references leave the stored collections as
\* they were.  A recommend step and a run of the result view, with or without the
\* save button, change neither the
\* items, nor the posts, nor the like counts of the db (same records, same fields,
\* same order); the onboarding submit changes the items by the presets it appends
\* and by nothing else; and the _sim and _likes annotations are on every returned
\* record and on no stored post.
C21_RankersLeaveDbUnchanged ==
    [][ /\ ((\E c \in AppCtxs : Recommend(c)) \/ ShowResult \/ SaveOutfit)
           => /\ items' = items
              /\ posts' = posts
              /\ likesMap' = likesMap
        /\ \A prof \in AppProfiles :
              OnboardSubmit(prof)
                 => /\ items' = items \o PresetItems(prof, nextId)
                    /\ posts' = posts
                    /\ likesMap' = likesMap
        /\ refs' # None
              => /\ \A i \in 1..Len(Val(refs')) :
                       {"_sim", "_likes"} \subseteq DOMAIN Val(refs')[i]
                 /\ Unannotated(posts') ]_vars

\* the result view has ranked a feed of two posts for an outfit composed of the
\* wardrobe's items
C21_Witness ==
    /\ refs # None
    /\ Len(Val(refs)) = 2
    /\ Len(posts) = 2
    /\ lastOutfit # None
    /\ Val(lastOutfit).source = "rules"
    /\ items # <<>>

(***************************************************************************)
(* The bulk deletion of the presets.                                       *)
(***************************************************************************)
\* C22: the bulk preset deletion removes every item whose is_preset flag is true
\* and nothing else.  After it no preset item remains and the wardrobe is exactly
\* the user-entered items it held, each unchanged and in the same order; the
\* posts, the like counts, the saved outfits and the onboarding flags are as they
\* were.
C22_BulkDeleteRemovesExactlyPresets ==
    [][ DeletePresets
          => /\ \A i \in 1..Len(items') : ~items'[i].is_preset
             /\ items' = UserItems(items)
             /\ Len(items') = Cardinality({i \in 1..Len(items) : ~items[i].is_preset})
             /\ Len(items') < Len(items)
             /\ posts' = posts
             /\ likesMap' = likesMap
             /\ savedOutfits' = savedOutfits
             /\ onboarded' = onboarded
             /\ profile' = profile ]_vars

\* a wardrobe of two user-entered items only, next to a saved outfit that still
\* holds a preset: the presets were deleted in bulk from under the two items
C22_Witness ==
    /\ Len(items) = 2
    /\ items[1].id > items[2].id /\ items[2].id > 13
    /\ \A i \in 1..Len(items) : ~items[i].is_preset
    /\ onboarded
    /\ profile # None /\ "style" \in DOMAIN Val(profile)
    /\ savedOutfits # <<>>
    /\ \E s \in DOMAIN savedOutfits[1].outfit :
          /\ savedOutfits[1].outfit[s] # None
          /\ Val(savedOutfits[1].outfit[s]).is_preset

(***************************************************************************)
(* The onboarding reset of the settings tab.                               *)
(***************************************************************************)
\* C23: after the "reset the onboarding state" action the next run of the main tab
\* shows the onboarding form again: need_onboarding is true after every step of the
\* reset, whatever the wardrobe held, user-entered items included.
C23_ResetShowsOnboardingAgain ==
    [][ ResetOnboarding => need_onboarding' ]_vars

(***************************************************************************)
(* The view of the main tab and the outfit it shows.                       *)
(***************************************************************************)
\* C24: whenever main_view is "result", last_outfit is not null, after any
\* sequence of the handlers.  main_view becomes "result" only in a step that
\* stores a last_outfit composed in that step (of the wardrobe the step leaves, at
\* the step's clock); last_outfit is cleared only in a step that leaves main_view
\* at "home"; and the recommend button on an empty wardrobe changes neither.
C24_ResultViewHasOutfit ==
    /\ [](mainView = "result" => lastOutfit # None)
    /\ [][ /\ (mainView # "result" /\ mainView' = "result")
              => /\ lastOutfit' # None
                 /\ Val(lastOutfit').created_at = clock
                 /\ Val(lastOutfit').outfit
                       = pick_best_items(items', Val(lastOutfit').ctx)
                 /\ Val(lastOutfit').outfit_text
                       = outfit_to_text(Val(lastOutfit').outfit)
           /\ (lastOutfit # None /\ lastOutfit' = None) => mainView' = "home"
           /\ ((\E c \in AppCtxs : Recommend(c)) /\ items = <<>>)
                 => UNCHANGED <<mainView, lastOutfit>> ]_vars

\* the result view shows an outfit composed by the recommend button, in a session
\* that was reset before and holds a saved outfit
C24_Witness ==
    /\ mainView = "result"
    /\ lastOutfit # None
    /\ Val(lastOutfit).source = "rules"
    /\ savedOutfits # <<>>
    /\ ~onboarded

=============================================================================
